---------------------------- MODULE Spec2Model ----------------------------
(***************************************************************************)
(* A model of ursa-mikail/mem_remap: the offsetMemoryAddressing change     *)
(* tracker (modifyBytes / removeMemoryAddress), the byte-level image       *)
(* scrambler (scrambleImage / recoverImage) and the pixel shuffler (main   *)
(* of image_scrambler/main.go).                                            *)
(*                                                                         *)
(* Buffers ([]byte, []int) are functions over 0..n-1, as Go indexes them.  *)
(* A Go map is a function over its key set; the order in which `range`     *)
(* visits a map is chosen nondeterministically by every action that        *)
(* iterates one.                                                           *)
(*                                                                         *)
(* Two specifications share the variables:                                 *)
(*   Spec          a caller driving one tracker over one backing array     *)
(*   SpecScramble  scrambleImage followed by recoverImage, or main of      *)
(*                 image_scrambler/main.go                                 *)
(***************************************************************************)
EXTENDS Integers, Sequences, FiniteSets, TLC

VARIABLES
    data,       \* the caller's source buffer (data / originalImg.Pix)
    offsets,    \* tracker.offsets : map[int64]byte
    call,       \* the tracker call the caller made last, with its arguments
    err,        \* the error value the last call returned
    base,       \* history: content of data when offsets was last cleared
    restored,   \* history: positions the last removeMemoryAddress wrote
    again,      \* history: the last call was a removeMemoryAddress made
                \* right after a successful one on the same slice
    recLen,     \* history: length of the longest slice an entry of offsets
                \* was recorded through (0 while offsets is empty)
    pc,         \* position of the scramble programs
    width,      \* bounds.Dx() of the image
    height,     \* bounds.Dy() of the image
    dropped,    \* results of the modifyBytes calls whose error main discards
    indices,    \* indices / shuffledIndices
    i,          \* the running loop's counter
    scrambled,  \* scrambledData / scrambledImg.Pix
    recovered,  \* recoverImage's scrambledData / restoredImg.Pix
    reverseShuffle, \* reverseShuffle of the pixel shuffler
    offsets2,   \* tracker2.offsets of the pixel shuffler
    choices,    \* history: the values of j the shuffle loop drew, in order
    writes      \* history: for each position of the buffer the running
                \* apply loop fills, the number of modifyBytes calls that
                \* returned nil for it

vars == <<data, offsets, call, err, base, restored, again, recLen, pc, width,
          height,
          dropped, indices, i, scrambled,
          recovered, reverseShuffle, offsets2, choices, writes>>

-----------------------------------------------------------------------------
(* Bounds of the model *)

\* longest backing array the tracker's caller owns
MaxLen == 3

\* a map of up to this many keys is ranged over in every order
MaxOrderKeys == 4

\* most pixels (width * height) of the image the pixel shuffler loads
MaxPixels == 5

\* the caller's buffer starts as 0x10, 0x20, 0x30, ... (the example of main)
\* and the caller writes the example's two values 0x99 and 0x77
ExampleByte(p) == 16 * (p + 1)
NewBytes == {153, 119}

-----------------------------------------------------------------------------
(* Go values *)

Nil == "nil"
ErrEmpty == "mem block is empty"
ErrOutOfBounds == "offset is out of bounds"

\* make(map[int64]byte)
EmptyMap == [k \in {} |-> 0]

\* len(mem)
BufLen(mem) == Cardinality(DOMAIN mem)

\* mem[:k] as the callee sees it
Slice(mem, k) == [p \in 0 .. k - 1 |-> mem[p]]

\* the backing array after the callee wrote through mem[:k]
WriteBack(mem, part) ==
    [p \in DOMAIN mem |-> IF p \in DOMAIN part THEN part[p] ELSE mem[p]]

\* every sequence that lists the elements of S once
RECURSIVE Orders(_)
Orders(S) ==
    IF S = {} THEN {<<>>}
    ELSE UNION {{<<k>> \o rest : rest \in Orders(S \ {k})} : k \in S}

\* the elements of S in ascending order
RECURSIVE Ascending(_)
Ascending(S) ==
    IF S = {} THEN <<>>
    ELSE LET m == CHOOSE k \in S : \A q \in S : k <= q
         IN <<m>> \o Ascending(S \ {m})

Reverse(s) == [k \in 1 .. Len(s) |-> s[Len(s) + 1 - k]]

Rotate(s, r) == [k \in 1 .. Len(s) |-> s[((k - 1 + r) % Len(s)) + 1]]

\* the orders in which `range o.offsets` may visit the keys of a map: every
\* order for a map of at most MaxOrderKeys keys; for a larger map (only the
\* scramble programs build one) the ascending and the descending order, each
\* also started from its middle entry.
RangeOrders(o) ==
    LET S == DOMAIN o
        n == Cardinality(S)
        up == Ascending(S)
        down == Reverse(up)
    IN IF n <= MaxOrderKeys THEN Orders(S)
       ELSE {up, down, Rotate(up, n \div 2), Rotate(down, n \div 2)}

-----------------------------------------------------------------------------
(* offsetMemoryAddressing *)

\* modifyBytes written with the bounds check off by one (offset = len passes
\* and is recorded with a zero byte)
ModifyBytesLooseCheck(o, mem, offset, newValue) ==
    IF offset < 0 \/ offset > BufLen(mem)
    THEN [err |-> ErrOutOfBounds, offsets |-> o, mem |-> mem]
    ELSE [err |-> Nil,
          offsets |-> IF offset \in DOMAIN o THEN o
                      ELSE (offset :> (IF offset \in DOMAIN mem
                                       THEN mem[offset] ELSE 0)) @@ o,
          mem |-> [mem EXCEPT ![offset] = newValue]]

\* modifyBytes that stores the pre-write byte on every write, tracked or not
ModifyBytesRecordAlways(o, mem, offset, newValue) ==
    IF offset < 0 \/ offset >= BufLen(mem)
    THEN [err |-> ErrOutOfBounds, offsets |-> o, mem |-> mem]
    ELSE [err |-> Nil,
          offsets |-> (offset :> mem[offset]) @@ o,
          mem |-> [mem EXCEPT ![offset] = newValue]]

\* func (o *offsetMemoryAddressing) modifyBytes(mem, offset, newValue) error
ModifyBytes(o, mem, offset, newValue) ==
    IF offset < 0 \/ offset >= BufLen(mem)
    THEN [err |-> ErrOutOfBounds, offsets |-> o, mem |-> mem]
    ELSE [err |-> Nil,
          offsets |-> IF offset \in DOMAIN o THEN o
                      ELSE (offset :> mem[offset]) @@ o,
          mem |-> [mem EXCEPT ![offset] = newValue]]

\* the range loop checking every offset before it writes any entry back
RECURSIVE RangeRestoreAllOrNothing(_, _, _, _, _)
RangeRestoreAllOrNothing(o, mem, n, order, idx) ==
    IF \E k \in idx .. Len(order) : order[k] < 0 \/ order[k] >= n
    THEN [err |-> ErrOutOfBounds, mem |-> mem, done |-> 0]
    ELSE IF idx > Len(order)
         THEN [err |-> Nil, mem |-> mem, done |-> idx - 1]
         ELSE RangeRestoreAllOrNothing(
                  o, [mem EXCEPT ![order[idx]] = o[order[idx]]], n, order,
                  idx + 1)

\* the range loop writing the value of the first entry it met at every offset
RECURSIVE RangeRestoreFirstValue(_, _, _, _, _)
RangeRestoreFirstValue(o, mem, n, order, idx) ==
    IF idx > Len(order) THEN [err |-> Nil, mem |-> mem, done |-> idx - 1]
    ELSE LET offset == order[idx]
         IN IF offset < 0 \/ offset >= n
            THEN [err |-> ErrOutOfBounds, mem |-> mem, done |-> idx - 1]
            ELSE RangeRestoreFirstValue(
                     o, [mem EXCEPT ![offset] = o[order[1]]], n, order,
                     idx + 1)

\* the range loop that stops one entry short of the end of the map
RECURSIVE RangeRestoreStopsShort(_, _, _, _, _)
RangeRestoreStopsShort(o, mem, n, order, idx) ==
    IF idx >= Len(order) THEN [err |-> Nil, mem |-> mem, done |-> idx - 1]
    ELSE LET offset == order[idx]
         IN IF offset < 0 \/ offset >= n
            THEN [err |-> ErrOutOfBounds, mem |-> mem, done |-> idx - 1]
            ELSE RangeRestoreStopsShort(o, [mem EXCEPT ![offset] = o[offset]],
                                        n, order, idx + 1)

\* the range loop of removeMemoryAddress over mem, n = len(mem), from the
\* idx-th key of order on: the first key out of bounds ends it with the
\* error, the writes made so far kept; done counts the entries written back
RECURSIVE RangeRestore(_, _, _, _, _)
RangeRestore(o, mem, n, order, idx) ==
    IF idx > Len(order) THEN [err |-> Nil, mem |-> mem, done |-> idx - 1]
    ELSE LET offset == order[idx]
         IN IF offset < 0 \/ offset >= n
            THEN [err |-> ErrOutOfBounds, mem |-> mem, done |-> idx - 1]
            ELSE RangeRestore(o, [mem EXCEPT ![offset] = o[offset]],
                              n, order, idx + 1)

\* removeMemoryAddress without the empty-buffer check
RemoveMemoryAddressNoEmptyCheck(o, mem, order) ==
    LET r == RangeRestore(o, mem, BufLen(mem), order, 1)
    IN IF r.err # Nil
       THEN [err |-> r.err, offsets |-> o, mem |-> r.mem, done |-> r.done]
       ELSE [err |-> Nil, offsets |-> EmptyMap, mem |-> r.mem,
             done |-> r.done]

\* removeMemoryAddress that keeps the map after restoring
RemoveMemoryAddressNoClear(o, mem, order) ==
    IF BufLen(mem) = 0
    THEN [err |-> ErrEmpty, offsets |-> o, mem |-> mem, done |-> 0]
    ELSE LET r == RangeRestore(o, mem, BufLen(mem), order, 1)
         IN [err |-> r.err, offsets |-> o, mem |-> r.mem, done |-> r.done]

\* removeMemoryAddress that reports an error when nothing is tracked
RemoveMemoryAddressNeedsEntries(o, mem, order) ==
    IF BufLen(mem) = 0 \/ o = EmptyMap
    THEN [err |-> ErrEmpty, offsets |-> o, mem |-> mem, done |-> 0]
    ELSE LET r == RangeRestore(o, mem, BufLen(mem), order, 1)
         IN IF r.err # Nil
            THEN [err |-> r.err, offsets |-> o, mem |-> r.mem,
                  done |-> r.done]
            ELSE [err |-> Nil, offsets |-> EmptyMap, mem |-> r.mem,
                  done |-> r.done]

\* removeMemoryAddress that also zeroes the positions it has no entry for
RemoveMemoryAddressZeroFill(o, mem, order) ==
    IF BufLen(mem) = 0
    THEN [err |-> ErrEmpty, offsets |-> o, mem |-> mem, done |-> 0]
    ELSE LET r == RangeRestore(o, mem, BufLen(mem), order, 1)
         IN IF r.err # Nil
            THEN [err |-> r.err, offsets |-> o, mem |-> r.mem,
                  done |-> r.done]
            ELSE [err |-> Nil, offsets |-> EmptyMap,
                  mem |-> [p \in DOMAIN mem |->
                              IF p \in DOMAIN o THEN r.mem[p] ELSE 0],
                  done |-> r.done]

\* removeMemoryAddress that deletes each entry as it writes it back
RemoveMemoryAddressDropsRestored(o, mem, order) ==
    IF BufLen(mem) = 0
    THEN [err |-> ErrEmpty, offsets |-> o, mem |-> mem, done |-> 0]
    ELSE LET r == RangeRestore(o, mem, BufLen(mem), order, 1)
             left == DOMAIN o \ {order[j] : j \in 1 .. r.done}
         IN [err |-> r.err, offsets |-> [p \in left |-> o[p]], mem |-> r.mem,
             done |-> r.done]

\* removeMemoryAddress that empties the map on every return from the loop
RemoveMemoryAddressClearsOnError(o, mem, order) ==
    IF BufLen(mem) = 0
    THEN [err |-> ErrEmpty, offsets |-> o, mem |-> mem, done |-> 0]
    ELSE LET r == RangeRestore(o, mem, BufLen(mem), order, 1)
         IN [err |-> r.err, offsets |-> EmptyMap, mem |-> r.mem,
             done |-> r.done]

\* func (o *offsetMemoryAddressing) removeMemoryAddress(mem) error, the map
\* ranged over in the given order
RemoveMemoryAddress(o, mem, order) ==
    IF BufLen(mem) = 0
    THEN [err |-> ErrEmpty, offsets |-> o, mem |-> mem, done |-> 0]
    ELSE LET r == RangeRestore(o, mem, BufLen(mem), order, 1)
         IN IF r.err # Nil
            THEN [err |-> r.err, offsets |-> o, mem |-> r.mem,
                  done |-> r.done]
            ELSE [err |-> Nil, offsets |-> EmptyMap, mem |-> r.mem,
                  done |-> r.done]

-----------------------------------------------------------------------------
(* Spec: a caller that owns one backing array and one tracker, and calls   *)
(* the two methods with any slice data[:k] of it, any offset, any value.   *)

\* exists: whether the offset was tracked when modifyBytes was called;
\* against: recLen when removeMemoryAddress was called; retry: whether the
\* call before a removeMemoryAddress was a removeMemoryAddress that failed
NoCall ==
    [op |-> "none", len |-> 0, offset |-> 0, newValue |-> 0, exists |-> FALSE,
     against |-> 0, retry |-> FALSE]

\* the variables the tracker's caller does not use
ScrambleIdle ==
    /\ pc = "caller"
    /\ width = 0
    /\ height = 0
    /\ dropped = {}
    /\ indices = <<>>
    /\ i = 0
    /\ scrambled = <<>>
    /\ recovered = <<>>
    /\ reverseShuffle = <<>>
    /\ offsets2 = EmptyMap
    /\ choices = <<>>
    /\ writes = <<>>

ScrambleUnchanged ==
    UNCHANGED <<pc, width, height, dropped, indices, i, scrambled, recovered,
                reverseShuffle, offsets2, choices, writes>>

\* data := []byte{...}; tracker := &offsetMemoryAddressing{offsets: make(...)}
Init ==
    /\ \E n \in 0 .. MaxLen : data = [p \in 0 .. n - 1 |-> ExampleByte(p)]
    /\ offsets = EmptyMap
    /\ call = NoCall
    /\ err = Nil
    /\ base = data
    /\ restored = {}
    /\ again = FALSE
    /\ recLen = 0
    /\ ScrambleIdle

\* err := tracker.modifyBytes(data[:k], offset, newValue)
CallModifyBytes ==
    /\ pc = "caller"
    /\ \E k \in 0 .. BufLen(data) :
       \E offset \in -1 .. k + 1, newValue \in NewBytes :
          LET r == ModifyBytes(offsets, Slice(data, k), offset, newValue)
          IN /\ call' = [op |-> "modifyBytes", len |-> k, offset |-> offset,
                         newValue |-> newValue,
                         exists |-> offset \in DOMAIN offsets,
                         against |-> 0, retry |-> FALSE]
             /\ recLen' = IF r.err = Nil /\ offset \notin DOMAIN offsets /\
                              k > recLen
                           THEN k ELSE recLen
             /\ err' = r.err
             /\ offsets' = r.offsets
             /\ data' = WriteBack(data, r.mem)
    /\ base' = IF offsets' = EmptyMap THEN data' ELSE base
    /\ restored' = {}
    /\ again' = FALSE
    /\ ScrambleUnchanged

\* err := tracker.removeMemoryAddress(data[:k])
CallRemoveMemoryAddress ==
    /\ pc = "caller"
    /\ \E k \in 0 .. BufLen(data), order \in RangeOrders(offsets) :
          LET r == RemoveMemoryAddress(offsets, Slice(data, k), order)
          IN /\ call' = [op |-> "removeMemoryAddress", len |-> k,
                         offset |-> 0, newValue |-> 0, exists |-> FALSE,
                         against |-> recLen,
                         retry |-> (/\ call.op = "removeMemoryAddress"
                                    /\ err # Nil)]
             /\ recLen' = IF r.offsets = EmptyMap THEN 0 ELSE recLen
             /\ err' = r.err
             /\ offsets' = r.offsets
             /\ data' = WriteBack(data, r.mem)
             /\ restored' = {order[j] : j \in 1 .. r.done}
             /\ again' = (/\ call.op = "removeMemoryAddress"
                          /\ err = Nil
                          /\ call.len = k)
    /\ base' = IF offsets' = EmptyMap THEN data' ELSE base
    /\ ScrambleUnchanged

Next == CallModifyBytes \/ CallRemoveMemoryAddress

Spec == Init /\ [][Next]_vars

-----------------------------------------------------------------------------
(* Helpers of the two scramble programs *)

\* bytesPerPixel := 4 // RGBA
BytesPerPixel == 4

\* make([]byte, n), image.NewRGBA(bounds).Pix: n zero bytes
ZeroBuffer(n) == [k \in 0 .. n - 1 |-> 0]

\* a buffer or slice not made yet
NoBuffer == <<>>

\* no position of a buffer of n bytes written yet
NoWrites(n) == [p \in 0 .. n - 1 |-> 0]

\* the write counts after modifyBytes returned nil for the positions wrote
CountWrites(w, wrote) ==
    [p \in DOMAIN w |->
        w[p] + Cardinality({k \in 1 .. Len(wrote) : wrote[k] = p})]

\* the images given to the programs, as RGBA bytes: byte k is
\* (slope * k + 16) mod 256.  Slope 7 makes all bytes differ; slope 48 makes
\* them repeat every 16 bytes and puts a zero byte in the second pixel.
ImageSlopes == {7, 48}
ImageBytes(n, slope) == [k \in 0 .. n - 1 |-> (slope * k + 16) % 256]

\* the indices numbered from one: indices[i] = i + 1
IdentityIndicesFromOne(n) == [k \in 0 .. n - 1 |-> k + 1]

\* indices[i] = i for every i
IdentityIndices(n) == [k \in 0 .. n - 1 |-> k]

\* a swap that loses the value of s[a]: s[a] = s[b]; s[b] = s[a]
SwapOverwrite(s, a, b) == [s EXCEPT ![a] = s[b]]

\* s[a], s[b] = s[b], s[a]
Swap(s, a, b) == [s EXCEPT ![a] = s[b], ![b] = s[a]]

\* (*image.RGBA).PixOffset(x, y) for an image with Rect.Min = (0, 0) and
\* Stride = 4 * w
PixOffset(x, y, w) == y * (4 * w) + x * 4

\* color.RGBA.RGBA(): each 8-bit channel v widened to 16 bits, v | v << 8
Widen(v) == v * 257

\* byte(r >> 8) of a uint32 r
HighByte(r) == (r \div 256) % 256

\* img.At(x, y).RGBA() of an RGBA image w wide and h high with bytes pix:
\* the zero colour outside the image
RGBAAt(pix, w, h, x, y) ==
    IF x \in 0 .. w - 1 /\ y \in 0 .. h - 1
    THEN [c \in 0 .. 3 |-> Widen(pix[PixOffset(x, y, w) + c])]
    ELSE [c \in 0 .. 3 |-> 0]

\* the alpha channel stored in the buffer directly, not through the tracker
RECURSIVE WritePixelAlphaDirect(_, _, _, _, _)
WritePixelAlphaDirect(o, mem, off, px, c) ==
    IF c > 3 THEN [offsets |-> o, mem |-> mem, errs |-> {}, wrote |-> <<>>]
    ELSE LET r == IF c = 3
                  THEN [err |-> Nil, offsets |-> o,
                        mem |-> [mem EXCEPT ![off + c] = HighByte(px[c])]]
                  ELSE ModifyBytes(o, mem, off + c, HighByte(px[c]))
             rest == WritePixelAlphaDirect(r.offsets, r.mem, off, px, c + 1)
         IN [offsets |-> rest.offsets, mem |-> rest.mem,
             errs |-> {r.err} \cup rest.errs,
             wrote |-> IF r.err = Nil THEN <<off + c>> \o rest.wrote
                       ELSE rest.wrote]

\* the four calls with the alpha channel written as 255 (opaque)
RECURSIVE WritePixelOpaque(_, _, _, _, _)
WritePixelOpaque(o, mem, off, px, c) ==
    IF c > 3 THEN [offsets |-> o, mem |-> mem, errs |-> {}, wrote |-> <<>>]
    ELSE LET v == IF c = 3 THEN 255 ELSE HighByte(px[c])
             r == ModifyBytes(o, mem, off + c, v)
             rest == WritePixelOpaque(r.offsets, r.mem, off, px, c + 1)
         IN [offsets |-> rest.offsets, mem |-> rest.mem,
             errs |-> {r.err} \cup rest.errs,
             wrote |-> IF r.err = Nil THEN <<off + c>> \o rest.wrote
                       ELSE rest.wrote]

\* four modifyBytes calls of one loop iteration, their errors discarded:
\* the channels of px go to off, off+1, off+2, off+3
RECURSIVE WritePixel(_, _, _, _, _)
WritePixel(o, mem, off, px, c) ==
    IF c > 3 THEN [offsets |-> o, mem |-> mem, errs |-> {}, wrote |-> <<>>]
    ELSE LET r == ModifyBytes(o, mem, off + c, HighByte(px[c]))
             rest == WritePixel(r.offsets, r.mem, off, px, c + 1)
         IN [offsets |-> rest.offsets, mem |-> rest.mem,
             errs |-> {r.err} \cup rest.errs,
             wrote |-> IF r.err = Nil THEN <<off + c>> \o rest.wrote
                       ELSE rest.wrote]

\* the pixel's index taken for its byte offset, bytesPerPixel left out
PixelOffsetUnscaled(idx, w) ==
    LET x == idx % w
        y == idx \div w
    IN y * w + x

\* the byte offset computed with the coordinates exchanged
PixelOffsetTransposed(idx, w) ==
    LET x == idx % w
        y == idx \div w
    IN (x * w + y) * BytesPerPixel

\* x := idx % width; y := idx / width; offset := (y*width + x) * bytesPerPixel
PixelOffset(idx, w) ==
    LET x == idx % w
        y == idx \div w
    IN (y * w + x) * BytesPerPixel

\* the reverse mapping built without the last index of the forward one
RECURSIVE BuildReverseShort(_, _, _)
BuildReverseShort(p, rev, k) ==
    IF k >= BufLen(p) - 1 THEN rev
    ELSE BuildReverseShort(p, [rev EXCEPT ![p[k]] = k], k + 1)

\* a reverse mapping that copies the forward one: reverse[k] = p[k]
RECURSIVE BuildReverseCopy(_, _, _)
BuildReverseCopy(p, rev, k) ==
    IF k >= BufLen(p) THEN rev
    ELSE BuildReverseCopy(p, [rev EXCEPT ![k] = p[k]], k + 1)

\* for originalIdx, shuffledIdx := range shuffledIndices {
\*     reverseShuffle[shuffledIdx] = originalIdx }   from index k on
RECURSIVE BuildReverse(_, _, _)
BuildReverse(p, rev, k) ==
    IF k >= BufLen(p) THEN rev
    ELSE BuildReverse(p, [rev EXCEPT ![p[k]] = k], k + 1)

\* imageToBytes of an RGBA image: pixels row by row, four bytes each
ImageToBytes(pix, w, h) ==
    [k \in 0 .. w * h * 4 - 1 |->
        LET px == k \div 4
        IN HighByte(RGBAAt(pix, w, h, px % w, px \div w)[k % 4])]

\* bytesToImage: img.Set(x, y, color.RGBA{r, g, b, a}) row by row; the Pix
\* bytes of the new image
BytesToImage(bytes, w, h) ==
    [k \in 0 .. w * h * 4 - 1 |->
        LET px == (k \div 4) % w
            py == k \div (4 * w)
        IN bytes[(py * w + px) * 4 + (k - PixOffset(px, py, w))]]

\* scrambledData made without the copy of data
ScrambleTargetZero(bytes) == ZeroBuffer(BufLen(bytes))

\* scrambledData := make([]byte, len(data)); copy(scrambledData, data)
ScrambleTarget(bytes) == [k \in 0 .. BufLen(bytes) - 1 |-> bytes[k]]

\* the variables only the tracker's caller uses
CallerIdle ==
    /\ call = NoCall
    /\ base = NoBuffer
    /\ restored = {}
    /\ again = FALSE
    /\ recLen = 0

CallerUnchanged == UNCHANGED <<call, base, restored, again, recLen>>

-----------------------------------------------------------------------------
(* The byte-level scrambler: scrambleImage, then recoverImage *)

\* the images given to scrambleImage: one pixel (4 bytes, 24 index orders)
\* or none, an image with a zero side having no bytes.  Two pixels would
\* be 8 bytes and 40320 index orders.
ByteImageSizes == {<<0, 0>>, <<1, 0>>, <<0, 1>>, <<1, 1>>}

\* scrambleImage(img) up to the shuffle loop
InitBytes ==
    /\ \E size \in ByteImageSizes : width = size[1] /\ height = size[2]
    /\ \E slope \in ImageSlopes :
          data = ImageBytes(width * height * 4, slope)
    /\ offsets = EmptyMap
    /\ indices = IdentityIndices(BufLen(data))
    /\ i = BufLen(data) - 1
    /\ pc = "b_shuffle"
    /\ err = Nil
    /\ dropped = {}
    /\ scrambled = NoBuffer
    /\ recovered = NoBuffer
    /\ reverseShuffle = NoBuffer
    /\ offsets2 = EmptyMap
    /\ choices = <<>>
    /\ writes = NoBuffer
    /\ CallerIdle

\* the loop drawing j from all the indices: j := rand.Intn(len(indices))
ShuffleStepNaive ==
    /\ pc \in {"b_shuffle", "shuffle"}
    /\ i > 0
    /\ \E j \in 0 .. BufLen(indices) - 1 :
          /\ indices' = Swap(indices, i, j)
          /\ choices' = Append(choices, j)
    /\ i' = i - 1
    /\ UNCHANGED <<data, offsets, err, pc, width, height, dropped, scrambled,
                   recovered, reverseShuffle, offsets2>>
    /\ UNCHANGED writes
    /\ CallerUnchanged

\* one iteration of the Fisher-Yates loop of either program:
\* j := rand.Intn(i + 1); indices[i], indices[j] = indices[j], indices[i]
ShuffleStep ==
    /\ pc \in {"b_shuffle", "shuffle"}
    /\ i > 0
    /\ \E j \in 0 .. i :
          /\ indices' = Swap(indices, i, j)
          /\ choices' = Append(choices, j)
    /\ i' = i - 1
    /\ UNCHANGED <<data, offsets, err, pc, width, height, dropped, scrambled,
                   recovered, reverseShuffle, offsets2>>
    /\ UNCHANGED writes
    /\ CallerUnchanged

\* the shuffle loop ends; scrambledData is made as a copy of data
StartScramble ==
    /\ pc = "b_shuffle"
    /\ i <= 0
    /\ scrambled' = ScrambleTarget(data)
    /\ i' = 0
    /\ pc' = "b_apply"
    /\ UNCHANGED <<data, offsets, err, width, height, dropped, indices,
                   recovered, reverseShuffle, offsets2>>
    /\ writes' = NoWrites(BufLen(data))
    /\ UNCHANGED choices
    /\ CallerUnchanged

\* err := tracker.modifyBytes(scrambledData, indices[i], data[i]); an error
\* ends scrambleImage
ScrambleStep ==
    /\ pc = "b_apply"
    /\ i < BufLen(data)
    /\ LET r == ModifyBytes(offsets, scrambled, indices[i], data[i])
       IN /\ err' = r.err
          /\ offsets' = r.offsets
          /\ scrambled' = r.mem
          /\ writes' = IF r.err = Nil
                       THEN CountWrites(writes, <<indices[i]>>)
                       ELSE writes
          /\ IF r.err # Nil
             THEN pc' = "b_scrambleFailed" /\ i' = i
             ELSE pc' = pc /\ i' = i + 1
    /\ UNCHANGED <<data, width, height, dropped, indices, recovered,
                   reverseShuffle, offsets2>>
    /\ UNCHANGED choices
    /\ CallerUnchanged

\* scrambledImg := bytesToImage(scrambledData, width, height); return
FinishScramble ==
    /\ pc = "b_apply"
    /\ i >= BufLen(data)
    /\ scrambled' = BytesToImage(scrambled, width, height)
    /\ pc' = "b_scrambled"
    /\ UNCHANGED <<data, offsets, err, width, height, dropped, indices, i,
                   recovered, reverseShuffle, offsets2>>
    /\ UNCHANGED <<choices, writes>>
    /\ CallerUnchanged

\* recoverImage(scrambledImg, tracker): scrambledData :=
\* imageToBytes(scrambledImg); err := tracker.removeMemoryAddress(scrambledData)
RecoverImage ==
    /\ pc = "b_scrambled"
    /\ \E order \in RangeOrders(offsets) :
          LET r == RemoveMemoryAddress(
                      offsets, ImageToBytes(scrambled, width, height), order)
          IN /\ err' = r.err
             /\ offsets' = r.offsets
             /\ recovered' = r.mem
             /\ pc' = IF r.err # Nil THEN "b_recoverFailed" ELSE "b_done"
    /\ UNCHANGED <<data, width, height, dropped, indices, i, scrambled,
                   reverseShuffle, offsets2>>
    /\ UNCHANGED <<choices, writes>>
    /\ CallerUnchanged

-----------------------------------------------------------------------------
(* The pixel shuffler: main of image_scrambler/main.go *)

\* main up to the shuffle loop, for a decoded image of at most MaxPixels
\* pixels
InitPixels ==
    /\ width \in 1 .. MaxPixels
    /\ height \in 1 .. MaxPixels
    /\ width * height <= MaxPixels
    /\ \E slope \in ImageSlopes :
          data = ImageBytes(width * height * 4, slope)
    /\ offsets = EmptyMap
    /\ indices = IdentityIndices(width * height)
    /\ i = width * height - 1
    /\ pc = "shuffle"
    /\ err = Nil
    /\ dropped = {}
    /\ scrambled = NoBuffer
    /\ recovered = NoBuffer
    /\ reverseShuffle = NoBuffer
    /\ offsets2 = EmptyMap
    /\ choices = <<>>
    /\ writes = NoBuffer
    /\ CallerIdle

\* the "Shuffle examples" loop reads shuffledIndices[0..4] and divides by
\* width: it panics on an image of fewer than five pixels.  After it
\* scrambledImg and tracker are made.
ShowExamples ==
    /\ pc = "shuffle"
    /\ i <= 0
    /\ IF width = 0 \/ \E k \in 0 .. 4 : k \notin DOMAIN indices
       THEN /\ pc' = "panic"
            /\ UNCHANGED <<scrambled, offsets, i, writes>>
       ELSE /\ pc' = "apply"
            /\ scrambled' = ZeroBuffer(4 * width * height)
            /\ offsets' = EmptyMap
            /\ writes' = NoWrites(4 * width * height)
            /\ i' = 0
    /\ UNCHANGED <<data, err, width, height, dropped, indices, recovered,
                   reverseShuffle, offsets2>>
    /\ UNCHANGED choices
    /\ CallerUnchanged

\* one iteration of "Apply the shuffle": the pixel at originalIdx = i goes
\* to shuffledIdx = shuffledIndices[i], through tracker
ApplyShuffleStep ==
    /\ pc = "apply"
    /\ i < BufLen(indices)
    /\ LET originalIdx == i
           shuffledIdx == indices[i]
           px == RGBAAt(data, width, height,
                        originalIdx % width, originalIdx \div width)
           w == WritePixel(offsets, scrambled,
                           PixelOffset(shuffledIdx, width), px, 0)
       IN /\ offsets' = w.offsets
          /\ scrambled' = w.mem
          /\ dropped' = dropped \cup w.errs
          /\ writes' = CountWrites(writes, w.wrote)
    /\ i' = i + 1
    /\ UNCHANGED <<data, err, pc, width, height, indices, recovered,
                   reverseShuffle, offsets2>>
    /\ UNCHANGED choices
    /\ CallerUnchanged

\* the loop ends; reverseShuffle is built, restoredImg and tracker2 are made
CreateReverseShuffle ==
    /\ pc = "apply"
    /\ i >= BufLen(indices)
    /\ reverseShuffle' =
          BuildReverse(indices, ZeroBuffer(width * height), 0)
    /\ recovered' = ZeroBuffer(4 * width * height)
    /\ offsets2' = EmptyMap
    /\ i' = 0
    /\ pc' = "restore"
    /\ UNCHANGED <<data, offsets, err, width, height, dropped, indices,
                   scrambled>>
    /\ writes' = NoWrites(4 * width * height)
    /\ UNCHANGED choices
    /\ CallerUnchanged

\* one iteration of "Applying reverse shuffle": the pixel at shuffledIdx = i
\* of scrambledImg goes to originalIdx = reverseShuffle[i] of restoredImg,
\* through tracker2
ApplyReverseStep ==
    /\ pc = "restore"
    /\ i < BufLen(reverseShuffle)
    /\ LET shuffledIdx == i
           originalIdx == reverseShuffle[i]
           px == RGBAAt(scrambled, width, height,
                        shuffledIdx % width, shuffledIdx \div width)
           w == WritePixel(offsets2, recovered,
                           PixelOffset(originalIdx, width), px, 0)
       IN /\ offsets2' = w.offsets
          /\ recovered' = w.mem
          /\ dropped' = dropped \cup w.errs
          /\ writes' = CountWrites(writes, w.wrote)
    /\ i' = i + 1
    /\ UNCHANGED <<data, offsets, err, pc, width, height, indices, scrambled,
                   reverseShuffle>>
    /\ UNCHANGED choices
    /\ CallerUnchanged

\* restoredImg is complete
FinishRestore ==
    /\ pc = "restore"
    /\ i >= BufLen(reverseShuffle)
    /\ pc' = "restored"
    /\ UNCHANGED <<data, offsets, err, width, height, dropped, indices, i,
                   scrambled, recovered, reverseShuffle, offsets2>>
    /\ UNCHANGED <<choices, writes>>
    /\ CallerUnchanged

\* err = tracker.removeMemoryAddress(scrambledImg.Pix)
DemonstrateRemove ==
    /\ pc = "restored"
    /\ \E order \in RangeOrders(offsets) :
          LET r == RemoveMemoryAddress(offsets, scrambled, order)
          IN /\ err' = r.err
             /\ offsets' = r.offsets
             /\ scrambled' = r.mem
             /\ pc' = IF r.err # Nil THEN "failed" ELSE "done"
    /\ UNCHANGED <<data, width, height, dropped, indices, i, recovered,
                   reverseShuffle, offsets2>>
    /\ UNCHANGED <<choices, writes>>
    /\ CallerUnchanged

-----------------------------------------------------------------------------
(* SpecScramble: either scramble program, from any of its images *)

InitScramble == InitBytes \/ InitPixels

NextScramble ==
    \/ ShuffleStep
    \/ StartScramble
    \/ ScrambleStep
    \/ FinishScramble
    \/ RecoverImage
    \/ ShowExamples
    \/ ApplyShuffleStep
    \/ CreateReverseShuffle
    \/ ApplyReverseStep
    \/ FinishRestore
    \/ DemonstrateRemove

SpecScramble == InitScramble /\ [][NextScramble]_vars

-----------------------------------------------------------------------------
(* Claims about the tracker, checked under Spec *)

ModifySucceeded == call.op = "modifyBytes" /\ err = Nil
RemoveSucceeded == call.op = "removeMemoryAddress" /\ err = Nil

\* C3: between two clears of the tracker, the entry recorded for a position
\* is the byte the position held before the first write to it (its byte when
\* the record was last empty); a later write to the position leaves the entry
\* as it is, and a removeMemoryAddress that returns nil puts exactly that
\* first byte back at every recorded position.
C3_FirstWriteWins ==
    /\ [](\A p \in DOMAIN offsets : p \in DOMAIN base /\ offsets[p] = base[p])
    /\ [][/\ (ModifySucceeded' /\ call'.exists)
                => offsets'[call'.offset] = offsets[call'.offset]
          /\ RemoveSucceeded'
                => \A p \in DOMAIN offsets :
                      data'[p] = base[p] /\ p \in restored']_vars

\* a position written a second time with another byte than the first one:
\* the entry still holds the byte from before the first write
C3_Witness ==
    /\ ModifySucceeded
    /\ call.exists
    /\ call.offset = 1
    /\ data[1] = 119
    /\ offsets[1] = 32
    /\ base[1] = 32

\* C4: a removeMemoryAddress on a non-empty buffer that holds every recorded
\* position (the buffer the writes went to, or a longer slice of it) returns
\* nil and leaves the whole buffer as it was when the record was last empty,
\* whatever positions and values were written since, and in every later
\* write/restore cycle of the same tracker.
C4_RestoreRoundTrip ==
    [][(/\ call'.op = "removeMemoryAddress"
        /\ call'.len >= 1
        /\ \A p \in DOMAIN offsets : p < call'.len)
          => (err' = Nil /\ data' = base /\ offsets' = EmptyMap)]_vars

\* a restore on the whole buffer returned nil having put two positions back
C4_Witness ==
    /\ RemoveSucceeded
    /\ Cardinality(restored) >= 2
    /\ BufLen(data) >= 2
    /\ call.len = BufLen(data)
    /\ data = [p \in DOMAIN data |-> ExampleByte(p)]

\* C5: when removeMemoryAddress has returned nil the record is empty, and a
\* removeMemoryAddress made right after it on the same buffer returns nil,
\* writes nothing and leaves the buffer and the record as they were.
C5_SecondRestoreNoOp ==
    /\ [](RemoveSucceeded => offsets = EmptyMap)
    /\ [][(RemoveSucceeded /\ call'.op = "removeMemoryAddress"
                           /\ call'.len = call.len)
            => (/\ err' = Nil
                /\ data' = data
                /\ offsets' = offsets
                /\ restored' = {})]_vars

\* the second of two successive restores has returned
C5_Witness ==
    /\ again
    /\ RemoveSucceeded
    /\ call.len >= 1
    /\ restored = {}
    /\ offsets = EmptyMap

\* C6: modifyBytes with offset < 0 or offset >= len(mem) returns the
\* out-of-bounds error and changes neither the buffer nor the record.
C6_ModifyOutOfBounds ==
    [][(/\ call'.op = "modifyBytes"
        /\ (call'.offset < 0 \/ call'.offset >= call'.len))
          => (/\ err' = ErrOutOfBounds
              /\ data' = data
              /\ offsets' = offsets)]_vars

\* a write at offset = len(mem) was refused while entries were tracked
C6_Witness ==
    /\ call.op = "modifyBytes"
    /\ call.offset = call.len
    /\ call.len >= 1
    /\ err = ErrOutOfBounds
    /\ offsets # EmptyMap

\* C7: removeMemoryAddress on a zero-length buffer returns the empty-buffer
\* error whatever the tracker holds, and leaves the record (and the backing
\* array) as it was.
C7_RemoveEmptyBuffer ==
    [][(call'.op = "removeMemoryAddress" /\ call'.len = 0)
          => (/\ err' = ErrEmpty
              /\ offsets' = offsets
              /\ data' = data
              /\ restored' = {})]_vars

\* a restore on data[:0] was refused with two entries tracked
C7_Witness ==
    /\ call.op = "removeMemoryAddress"
    /\ call.len = 0
    /\ err = ErrEmpty
    /\ Cardinality(DOMAIN offsets) >= 2

\* C8 as stated: removeMemoryAddress with an empty record reports no failure
\* and changes nothing, for every buffer.
C8_EmptyTrackerNoOp_AnyBuffer ==
    [][(call'.op = "removeMemoryAddress" /\ offsets = EmptyMap)
          => (/\ err' = Nil
              /\ restored' = {}
              /\ data' = data
              /\ offsets' = offsets)]_vars

\* C8 amended: removeMemoryAddress with an empty record, on a buffer that is
\* not empty, returns nil, writes nothing and leaves buffer and record as
\* they were.
C8_EmptyTrackerNoOp ==
    [][(/\ call'.op = "removeMemoryAddress"
        /\ offsets = EmptyMap
        /\ call'.len >= 1)
          => (/\ err' = Nil
              /\ restored' = {}
              /\ data' = data
              /\ offsets' = offsets)]_vars

\* a restore on a non-empty buffer returned nil having written nothing,
\* before any write was ever tracked
C8_Witness ==
    /\ RemoveSucceeded
    /\ ~again
    /\ call.len >= 1
    /\ restored = {}
    /\ offsets = EmptyMap
    /\ data = [p \in DOMAIN data |-> ExampleByte(p)]

-----------------------------------------------------------------------------
(* Claims about the scramble programs, checked under SpecScramble *)

\* the positions of scrambleImage / recoverImage
BytePcs ==
    {"b_shuffle", "b_apply", "b_scrambleFailed", "b_scrambled",
     "b_recoverFailed", "b_done"}

\* the length the index slice was made with: len(data) in scrambleImage,
\* totalPixels in the pixel shuffler
ShuffleSize == IF pc \in BytePcs THEN BufLen(data) ELSE width * height

\* s lists every integer of 0 .. n-1 exactly once
IsPermutation(s, n) ==
    /\ DOMAIN s = 0 .. n - 1
    /\ \A v \in 0 .. n - 1 : Cardinality({k \in DOMAIN s : s[k] = v}) = 1

\* the image whose bytes all differ
DistinctImage == data = ImageBytes(BufLen(data), 7)

\* C1: when the pixel shuffler has scattered originalImg by shuffledIndices
\* into scrambledImg and scrambledImg by reverseShuffle into restoredImg,
\* restoredImg holds the bytes of originalImg at every position.
C1_RoundTrip ==
    pc \in {"restored", "done", "failed"} => recovered = data

\* restoredImg is complete after a shuffle that is not its own inverse, on
\* the image whose bytes all differ
C1_Witness ==
    /\ pc = "restored"
    /\ DistinctImage
    /\ reverseShuffle # indices
    /\ scrambled # data
    /\ recovered = data

\* C2: in both programs the index slice is a permutation of 0 .. n-1 before
\* the shuffle, after every swap of it and from then on, for every choice
\* of j (n = 0: the empty slice; n = 1: the slice [0]).
C2_ShuffleIsPermutation == IsPermutation(indices, ShuffleSize)

\* two swaps into the shuffle of five indices, both having moved an element
C2_Witness ==
    /\ pc = "shuffle"
    /\ BufLen(indices) = 5
    /\ i = 2
    /\ indices[4] # 4
    /\ indices[3] # 3

\* C9: after recoverImage has run removeMemoryAddress on the bytes of the
\* scrambled image with the tracker of scrambleImage, those bytes equal the
\* source bytes at every position; scrambleImage never fails, and
\* removeMemoryAddress fails only for an image without bytes.
C9_RecoverEqualsSource ==
    /\ pc \in {"b_done", "b_recoverFailed"} => recovered = data
    /\ pc = "b_recoverFailed" => (BufLen(data) = 0 /\ err = ErrEmpty)
    /\ pc # "b_scrambleFailed"

\* a one-pixel image with four different bytes was scrambled into another
\* order and recovered
C9_Witness ==
    /\ pc = "b_done"
    /\ DistinctImage
    /\ BufLen(data) = 4
    /\ \A k \in 0 .. 3 : indices[k] # k
    /\ scrambled # data
    /\ recovered = data
    /\ offsets = EmptyMap

\* C10: in the pixel shuffler every pixel already applied sits at its
\* shuffled position with its four channel bytes in the same order:
\* scrambled[4*P[k]+c] = original[4*k+c]; after the loop this holds for every
\* pixel, until removeMemoryAddress is demonstrated on scrambledImg.
C10_PixelsMoveWhole ==
    pc \in {"apply", "restore", "restored"} =>
        \A k \in 0 .. (IF pc = "apply" THEN i ELSE width * height) - 1 :
            \A c \in 0 .. 3 :
                scrambled[4 * indices[k] + c] = data[4 * k + c]

\* the shuffle of a five-pixel column that leaves no pixel in place has been
\* applied to the image whose bytes all differ
C10_Witness ==
    /\ pc = "restore"
    /\ i = 0
    /\ height = 5
    /\ DistinctImage
    /\ \A k \in 0 .. 4 : indices[k] # k
    /\ Cardinality(DOMAIN offsets) = 20

-----------------------------------------------------------------------------
(* Further claims about the tracker, checked under Spec *)

\* C11: a modifyBytes that returns nil leaves the written position in the
\* record (the tracker is TRACKING); every call other than a removeMemoryAddress
\* that returns nil -- any modifyBytes, any failed call -- keeps every entry
\* with its value; and the record goes from non-empty to empty only by a
\* removeMemoryAddress that returns nil.
C11_TrackerStateMachine ==
    /\ [](ModifySucceeded =>
             (offsets # EmptyMap /\ call.offset \in DOMAIN offsets))
    /\ [][~RemoveSucceeded' =>
             \A p \in DOMAIN offsets :
                 p \in DOMAIN offsets' /\ offsets'[p] = offsets[p]]_vars
    /\ [][(offsets # EmptyMap /\ offsets' = EmptyMap) => RemoveSucceeded']_vars

\* a removeMemoryAddress failed out of bounds after writing an entry back,
\* and the two entries are still recorded
C11_Witness ==
    /\ call.op = "removeMemoryAddress"
    /\ err = ErrOutOfBounds
    /\ restored # {}
    /\ Cardinality(DOMAIN offsets) = 2

\* C15 as stated: whatever removeMemoryAddress returns, the buffer it leaves
\* is the one every other iteration order would have left
C15_AnyCallOrderIndependent ==
    [][call'.op = "removeMemoryAddress" =>
          LET mem == Slice(data, call'.len)
              left == Slice(data', call'.len)
          IN \A order \in RangeOrders(offsets) :
                 RemoveMemoryAddress(offsets, mem, order).mem = left]_vars

\* C15: when removeMemoryAddress returns nil, every iteration order of the
\* recorded entries returns nil and leaves the same final buffer.
C15_RestoreOrderIndependent ==
    [][RemoveSucceeded' =>
          LET mem == Slice(data, call'.len)
              left == Slice(data', call'.len)
          IN \A order \in RangeOrders(offsets) :
                 LET r == RemoveMemoryAddress(offsets, mem, order)
                 IN r.err = Nil /\ r.mem = left]_vars

\* three entries (six iteration orders) written back by a call that
\* returned nil
C15_Witness ==
    /\ RemoveSucceeded
    /\ restored = {0, 1, 2}
    /\ \A p \in restored : data[p] = ExampleByte(p)

\* C17: every recorded offset lies inside the longest slice an entry was
\* recorded through, so a removeMemoryAddress given a slice that is not
\* empty and not shorter than that one never returns "offset is out of
\* bounds": it returns nil.
C17_LongEnoughBufferNeverOutOfBounds ==
    /\ \A p \in DOMAIN offsets : 0 <= p /\ p < recLen
    /\ (/\ call.op = "removeMemoryAddress"
        /\ call.len >= 1
        /\ call.len >= call.against) => err = Nil

\* entries recorded through data[:2] and restored by a call given the longer
\* data[:3]
C17_Witness ==
    /\ RemoveSucceeded
    /\ call.against = 2
    /\ call.len = 3
    /\ restored = {0, 1}

\* the entries removeMemoryAddress(data[:k]) writes back when it ranges over
\* the map in the given order
WrittenBackBy(k, order) ==
    {order[j] : j \in 1 .. RemoveMemoryAddress(
                               offsets, Slice(data, k), order).done}

\* C18: a removeMemoryAddress that meets a recorded offset outside the buffer
\* returns "offset is out of bounds" and leaves the entries it wrote back
\* before written back (the buffer is partially restored, the record is
\* kept); which entries those are depends on the iteration order: when an
\* entry lies inside the buffer, another order writes back another set.
C18_PartialRestoreNotRolledBack ==
    [][(call'.op = "removeMemoryAddress" /\ err' = ErrOutOfBounds) =>
          LET inBounds == {p \in DOMAIN offsets : p < call'.len}
          IN /\ inBounds # DOMAIN offsets
             /\ offsets' = offsets
             /\ restored' \subseteq inBounds
             /\ \A p \in restored' : data'[p] = offsets[p]
             /\ \A p \in DOMAIN data \ restored' : data'[p] = data[p]
             /\ inBounds # {} =>
                   \E order \in RangeOrders(offsets) :
                       WrittenBackBy(call'.len, order) # restored']_vars

\* the call on data[:2] with entries 0, 1, 2 that wrote entry 0 back, met
\* entry 2 and returned: byte 0 restored, byte 1 still the written value
C18_Witness ==
    /\ call.op = "removeMemoryAddress"
    /\ err = ErrOutOfBounds
    /\ call.len = 2
    /\ DOMAIN offsets = {0, 1, 2}
    /\ restored = {0}
    /\ data[0] = offsets[0]
    /\ data[1] # offsets[1]

\* C19: a removeMemoryAddress that returns an error (empty buffer or offset
\* out of bounds) leaves the record exactly as it was, and the
\* removeMemoryAddress called next on a slice that is not empty and not
\* shorter than the one the entries were recorded through returns nil, puts
\* at every recorded position the byte it held before its first write, and
\* empties the record.
C19_FailedRemoveKeepsRecord ==
    [][/\ (call'.op = "removeMemoryAddress" /\ err' # Nil) =>
              offsets' = offsets
       /\ (/\ call'.op = "removeMemoryAddress"
           /\ call'.retry
           /\ call'.len >= 1
           /\ call'.len >= call'.against) =>
              /\ err' = Nil
              /\ \A p \in DOMAIN offsets :
                    data'[p] = base[p] /\ p \in restored'
              /\ offsets' = EmptyMap]_vars

\* three entries restored by the call made right after a failed one
C19_Witness ==
    /\ RemoveSucceeded
    /\ call.retry
    /\ call.len = 3
    /\ restored = {0, 1, 2}
    /\ data = base

\* C22: removeMemoryAddress, whether it returns nil or an error, writes only
\* at positions that have an entry and lie inside the slice it was given,
\* and writes there the recorded byte; every other position of the backing
\* array -- those without an entry, those beyond the slice, those the loop
\* did not reach -- keeps its byte, and the array keeps its length.
C22_RemoveWritesOnlyRecorded ==
    [][call'.op = "removeMemoryAddress" =>
          /\ DOMAIN data' = DOMAIN data
          /\ restored' \subseteq
                {p \in DOMAIN offsets : 0 <= p /\ p < call'.len}
          /\ \A p \in restored' : data'[p] = offsets[p]
          /\ \A p \in DOMAIN data \ restored' : data'[p] = data[p]
          /\ \A p \in DOMAIN data :
                (p \notin DOMAIN offsets \/ p >= call'.len) =>
                    data'[p] = data[p]]_vars

\* a call on data[:2] of a three-byte array with position 0 never written,
\* position 1 recorded and position 2 recorded but beyond the slice: only
\* position 1 is written back
C22_Witness ==
    /\ call.op = "removeMemoryAddress"
    /\ call.len = 2
    /\ DOMAIN offsets = {1, 2}
    /\ restored = {1}
    /\ data[0] = ExampleByte(0)
    /\ data[1] = offsets[1]
    /\ data[2] # offsets[2]

-----------------------------------------------------------------------------
(* Further claims about the scramble programs, checked under SpecScramble *)

\* the buffer the running apply loop fills and the tracker it writes through
ApplyPcs == {"b_apply", "apply", "restore"}
OutputBuffer == IF pc = "restore" THEN recovered ELSE scrambled
OutputTracker == IF pc = "restore" THEN offsets2 ELSE offsets
OutputBytes ==
    IF pc = "b_apply" THEN BufLen(data) ELSE BytesPerPixel * width * height
ApplyLoopEnded ==
    \/ pc = "b_apply" /\ i >= BufLen(data)
    \/ pc = "apply" /\ i >= BufLen(indices)
    \/ pc = "restore" /\ i >= BufLen(reverseShuffle)

\* C12: while a permutation is applied, no position of the output buffer has
\* been written more than once and the tracker holds an entry for exactly the
\* positions written; when the loop has ended every position of the output
\* has been written exactly once, and the tracker holds one entry per output
\* byte: N for the byte-level scrambler, 4 * pixels for the pixel shuffler.
C12_EachTargetWrittenOnce ==
    pc \in ApplyPcs =>
        /\ DOMAIN writes = DOMAIN OutputBuffer
        /\ BufLen(OutputBuffer) = OutputBytes
        /\ \A p \in DOMAIN writes : writes[p] <= 1
        /\ DOMAIN OutputTracker = {p \in DOMAIN writes : writes[p] = 1}
        /\ ApplyLoopEnded =>
              /\ \A p \in DOMAIN writes : writes[p] = 1
              /\ Cardinality(DOMAIN OutputTracker) = OutputBytes

\* the pixel shuffler's forward loop has ended over five pixels not left in
\* place: twenty bytes written once each, twenty entries
C12_Witness ==
    /\ pc = "apply"
    /\ i = 5
    /\ \A k \in DOMAIN indices : indices[k] # k
    /\ \A p \in 0 .. 19 : writes[p] = 1
    /\ Cardinality(DOMAIN offsets) = 20

\* the number of positions of buf that hold the byte v
CountByte(buf, v) == Cardinality({p \in DOMAIN buf : buf[p] = v})
BytesOf(buf) == {buf[p] : p \in DOMAIN buf}
SameMultiset(a, b) ==
    /\ BufLen(a) = BufLen(b)
    /\ \A v \in BytesOf(a) \cup BytesOf(b) : CountByte(a, v) = CountByte(b, v)

\* the scramble loop has ended and the scrambled buffer is still as it left it
ScrambleComplete ==
    \/ pc = "b_apply" /\ i >= BufLen(data)
    \/ pc = "b_scrambled"
    \/ pc = "apply" /\ i >= BufLen(indices)
    \/ pc \in {"restore", "restored"}

\* C13: the scrambled buffer has the length of the source buffer and holds
\* every byte value as many times as the source does.
C13_ScramblePreservesMultiset ==
    ScrambleComplete => SameMultiset(scrambled, data)

\* five pixels whose bytes repeat (slope 48: sixteen values over twenty
\* bytes), none left in place, scrambled into a different buffer
C13_Witness ==
    /\ pc = "restore"
    /\ BufLen(data) = 20
    /\ data[1] = data[17]
    /\ scrambled # data
    /\ \A k \in DOMAIN indices : indices[k] # k

\* reverseShuffle has been built
ReverseBuilt == pc \in {"restore", "restored", "done", "failed"}

\* C14: the reverse mapping R built from the shuffle P (R[P[i]] = i) is a
\* permutation of [0, n): each slot j of R is assigned by exactly one i (the
\* one with P[i] = j), and R[P[i]] = i and P[R[j]] = j for all i and j.
C14_ReverseIsInversePermutation ==
    ReverseBuilt =>
        /\ IsPermutation(reverseShuffle, width * height)
        /\ \A j \in DOMAIN reverseShuffle :
              Cardinality({k \in DOMAIN indices : indices[k] = j}) = 1
        /\ \A k \in DOMAIN indices : reverseShuffle[indices[k]] = k
        /\ \A j \in DOMAIN reverseShuffle : indices[reverseShuffle[j]] = j

\* a shuffle that is a cycle of three pixels and a swap of two: its reverse
\* differs from it
C14_Witness ==
    /\ pc = "restore"
    /\ indices = [k \in 0 .. 4 |-> <<1, 2, 0, 4, 3>>[k + 1]]
    /\ reverseShuffle = [k \in 0 .. 4 |-> <<2, 0, 1, 4, 3>>[k + 1]]

\* the shuffle loop as a function of the values drawn: the k-th iteration
\* has i = n - k and swaps positions i and c[k]
RECURSIVE ShuffleBy(_, _, _)
ShuffleBy(s, c, k) ==
    IF k > Len(c) THEN s
    ELSE ShuffleBy(Swap(s, BufLen(s) - k, c[k]), c, k + 1)

\* the sequences of draws of a whole loop over n indices: n - 1 draws, the
\* k-th from [0, n - k]
ChoiceSeqs(n) ==
    {c \in [1 .. n - 1 -> 0 .. n - 1] : \A k \in 1 .. n - 1 : c[k] <= n - k}
ShuffleResults(n) ==
    {ShuffleBy(IdentityIndices(n), c, 1) : c \in ChoiceSeqs(n)}
PermutationsOf(n) ==
    {s \in [0 .. n - 1 -> 0 .. n - 1] : IsPermutation(s, n)}

\* C16: the shuffle loop runs i from the last index down to 1, draws j from
\* [0, i] inclusive and swaps positions i and j, so indices is always the
\* result of the draws made so far; over all sequences of draws the loop
\* produces every permutation of [0, n), and as many different ones as there
\* are sequences (distinct sequences give distinct permutations).
C16_ShuffleBijection ==
    pc \in {"shuffle", "b_shuffle"} =>
        LET n == BufLen(indices)
        IN /\ i = n - 1 - Len(choices)
           /\ n > 0 => i >= 0
           /\ \A k \in 1 .. Len(choices) : choices[k] \in 0 .. n - k
           /\ indices = ShuffleBy(IdentityIndices(n), choices, 1)
           /\ choices = <<>> =>
                 /\ ShuffleResults(n) = PermutationsOf(n)
                 /\ Cardinality(ShuffleResults(n)) =
                       Cardinality(ChoiceSeqs(n))

\* a whole loop over five indices whose first draw was the last index itself
\* (j = i) and whose last draw was 0
C16_Witness ==
    /\ pc = "shuffle"
    /\ i = 0
    /\ choices = <<4, 1, 0, 0>>
    /\ indices = [k \in 0 .. 4 |-> <<3, 2, 0, 1, 4>>[k + 1]]

\* C20: in the pixel shuffler the scrambled buffer starts all zero and every
\* byte of it is written once through the tracker, so every entry recorded
\* is 0, and removeMemoryAddress on the scrambled buffer returns nil, leaves
\* every byte of it 0 (its state when it was made, not the source image) and
\* leaves no tracked offset.
C20_RemoveRestoresZeroImage ==
    /\ pc \in {"apply", "restore", "restored"} =>
          \A p \in DOMAIN offsets : offsets[p] = 0
    /\ pc # "failed"
    /\ pc = "done" =>
          /\ scrambled = ZeroBuffer(BytesPerPixel * width * height)
          /\ scrambled # data
          /\ offsets = EmptyMap

\* after the call: twenty zero bytes, no entry, while the restored image
\* equals the source
C20_Witness ==
    /\ pc = "done"
    /\ BufLen(scrambled) = 20
    /\ \A p \in DOMAIN scrambled : scrambled[p] = 0
    /\ offsets = EmptyMap
    /\ recovered = data
    /\ \E p \in DOMAIN data : data[p] # 0

\* the byte offsets the next iteration of the running apply loop writes to
NextTargets ==
    IF pc = "b_apply" /\ i < BufLen(data) THEN {indices[i]}
    ELSE IF pc = "apply" /\ i < BufLen(indices)
    THEN {PixelOffset(indices[i], width) + c : c \in 0 .. 3}
    ELSE IF pc = "restore" /\ i < BufLen(reverseShuffle)
    THEN {PixelOffset(reverseShuffle[i], width) + c : c \in 0 .. 3}
    ELSE {}

\* C21: in both scramble programs every target offset an apply loop (forward
\* or reverse) computes lies in [0, len(output)), so no modifyBytes call of
\* the loops returns an error: scrambleImage never takes its error return,
\* and every result the pixel shuffler discards is nil.
C21_ApplyWritesNeverFail ==
    /\ \A t \in NextTargets : 0 <= t /\ t < BufLen(OutputBuffer)
    /\ pc # "b_scrambleFailed"
    /\ pc \in {"b_apply", "b_scrambled"} => err = Nil
    /\ dropped \subseteq {Nil}

\* both loops of the pixel shuffler have run over five pixels, none left in
\* place, and all the discarded results are nil
C21_Witness ==
    /\ pc = "restored"
    /\ dropped = {Nil}
    /\ Cardinality(DOMAIN offsets) = 20
    /\ Cardinality(DOMAIN offsets2) = 20
    /\ \A k \in DOMAIN indices : indices[k] # k

=============================================================================
